---- MODULE Spec2Model ----
(***************************************************************************)
(* Money movement of the freelance-marketplace REST backend:               *)
(*   POST /jobs/:job_id/pay          (lines 98-143 of the express app)     *)
(*   POST /balances/deposit/:userId  (lines 149-211)                       *)
(* The persistence layer is the shared state (Profile.balance, Job.paid,   *)
(* Job.paymentDate, Job.depositPaid, Contract.status).  reqs holds the     *)
(* requests that overlap in time, in order of arrival: the values each one *)
(* read, the writes it issued and that have not settled, the writes that   *)
(* reached the store, its response.  A request that arrives when all of    *)
(* them have settled starts reqs afresh.  A step is one persistence        *)
(* operation together with the synchronous JavaScript that runs when it    *)
(* resolves.                                                               *)
(***************************************************************************)
EXTENDS Integers, Sequences, FiniteSets, TLC

\* ---------------------------------------------------------------- bounds
MaxReq == 2          \* requests issued in one behaviour
NJobs == 2           \* jobs stored under the contract

\* ------------------------------------------------------------ seed data
ClientIds == {1, 3}                  \* profiles of type 'client'
ContractorIds == {2}                 \* profiles of type 'contractor'
ProfileIds == ClientIds \cup ContractorIds
ContractIds == {1}
JobIds == 1..NJobs
RequestedJobIds == 1..(NJobs + 1)    \* one id names no job
Statuses == {"new", "in_progress", "terminated"}
Prices == {40, 100}
StartBalances == {40, 100}

\* Contract rows: contract 1 links client 1 to contractor 2; every job is a
\* job of contract 1.
Contracts == [c \in ContractIds |-> [ClientId |-> 1, ContractorId |-> 2]]
ContractClient(c) == Contracts[c].ClientId
ContractContractor(c) == Contracts[c].ContractorId
JobContract(j) == CHOOSE c \in ContractIds : TRUE

\* ------------------------------------------------- JavaScript arithmetic
\* undefined - x and undefined + x are NaN; every comparison with NaN or
\* undefined is false; null counts as 0.  NaN and Null are kept apart from
\* every amount the model holds.
NaN == 0 - 1000000
Null == 0 - 2000000
IsNumber(x) == x # NaN /\ x # Null
ToNumber(x) == IF x = Null THEN 0 ELSE x
JsGt(a, b) == a # NaN /\ b # NaN /\ ToNumber(a) > ToNumber(b)
JsAdd(a, b) == IF a # NaN /\ b # NaN THEN ToNumber(a) + ToNumber(b) ELSE NaN
JsSub(a, b) == IF a # NaN /\ b # NaN THEN ToNumber(a) - ToNumber(b) ELSE NaN

\* What the balance column holds after a write of v that the store accepts:
\* a NaN is kept as NaN or becomes NULL, depending on the store.
Stored(v) == IF v = NaN THEN {NaN, Null} ELSE {v}

\* ((25 / 100) * job.price); Prices are multiples of 4, so it is exact.
DepositAmount(p) == (25 * p) \div 100

VARIABLES balance, paid, paymentDate, depositPaid, status, price, reqs, nreq

db == <<balance, paid, paymentDate, depositPaid>>
seed == <<status, price>>
vars == <<balance, paid, paymentDate, depositPaid, status, price, reqs, nreq>>

\* ------------------------------------------------------------ responses
NoRes == [status |-> 0, message |-> "", jobs |-> 0, paid |-> 0, totalJobsPaid |-> 0]
Res(s, m) == [status |-> s, message |-> m, jobs |-> 0, paid |-> 0, totalJobsPaid |-> 0]
\* new BaseError(err).message for the TypeError thrown by job.Contract on null
TypeErrorMessage == "Cannot read properties of null (reading 'Contract')"
\* new BaseError(err).message for a rejected persistence write
StorageErrorMessage == "storage error"

\* ------------------------------------------------------------- queries
\* Job.findOne({where: {id}, include: [{model: Contract, where: {ClientId}} ...]})
FindJob(caller, id) == id \in JobIds /\ ContractClient(JobContract(id)) = caller

\* Job.findAll of the deposit route, rows in id order
Eligible(caller, userId, j) ==
    /\ ~paid[j]
    /\ ~depositPaid[j]
    /\ ContractContractor(JobContract(j)) = userId
    /\ ContractClient(JobContract(j)) = caller
    /\ status[JobContract(j)] # "terminated"
EligibleJobs(caller, userId) ==
    SelectSeq([j \in JobIds |-> j], LAMBDA j : Eligible(caller, userId, j))

\* the guard of the 'Insufficient funds' branch (and the same guard with >=)
InsufficientMut(p, b) == ~JsGt(b, p)
Insufficient(p, b) == JsGt(p, b)

\* ------------------------------------------------------------ requests
\* clientBal, contractorBal: the balances the request read when it arrived;
\* profileBal: profile.balance of the deposit loop.
NewReq(kind, caller, target) ==
    [kind |-> kind, caller |-> caller, target |-> target,
     pc |-> "done", res |-> NoRes, jobs |-> <<>>, idx |-> 1,
     clientBal |-> 0, contractorBal |-> 0, profileBal |-> 0,
     totalPaid |-> 0, totalJobsPaid |-> 0, pending |-> {}, applied |-> {}]

Write(tag, job, id, value) == [tag |-> tag, job |-> job, id |-> id, value |-> value]

Finished(r) == r.pc = "done" /\ r.pending = {}

Reqs == {reqs[i] : i \in 1..Len(reqs)}

\* a request arrives and its first step leaves it as r
Start(r) ==
    /\ nreq < MaxReq
    /\ nreq' = nreq + 1
    /\ reqs' = IF \A q \in Reqs : Finished(q) THEN <<r>> ELSE Append(reqs, r)

Init ==
    /\ balance \in {b \in [ProfileIds -> StartBalances \cup {0}] :
                        /\ \A p \in ContractorIds : b[p] = 0
                        /\ \A p \in ClientIds : b[p] \in StartBalances
                        /\ \A p \in ClientIds : (\A c \in ContractIds : ContractClient(c) # p) => b[p] = 40}
    /\ paid = [j \in JobIds |-> FALSE]
    /\ paymentDate = [j \in JobIds |-> 0]
    /\ depositPaid = [j \in JobIds |-> FALSE]
    /\ status \in [ContractIds -> Statuses]
    /\ price \in [JobIds -> Prices]
    /\ reqs = <<>>
    /\ nreq = 0

\* POST /jobs/:job_id/pay: Job.findOne and the whole .then callback.  The
\* callback reads nothing more, issues its three writes without awaiting any
\* of them and answers 200 in the same tick.  The job comes with its
\* contract's Client and Contractor rows as the two includes ask; moment()
\* is the request's number.
PayStart(caller, id) ==
    /\ UNCHANGED <<db, seed>>
    /\ LET base == NewReq("pay", caller, id) IN
       IF ~FindJob(caller, id)
       THEN \* job is null: line 115 throws, the outer catch answers
            Start([base EXCEPT !.res = Res(400, TypeErrorMessage)])
       ELSE LET client == ContractClient(JobContract(id))
                contractor == ContractContractor(JobContract(id))
                r0 == [base EXCEPT !.jobs = <<id>>,
                                   !.clientBal = balance[client],
                                   !.contractorBal = balance[contractor]]
            IN  IF paid[id]
                THEN Start([r0 EXCEPT !.res = Res(400, "Job already paid")])
                ELSE IF Insufficient(price[id], balance[client])
                THEN Start([r0 EXCEPT !.res = Res(400, "Insufficient funds")])
                ELSE Start([r0 EXCEPT
                               !.res = Res(200, "Paid successfully"),
                               !.pending =
                                  {Write("credit", id, contractor, JsAdd(balance[contractor], price[id])),
                                   Write("debit", id, caller, JsSub(balance[client], price[id])),
                                   Write("markPaid", id, id, nreq + 1)}])

\* An unawaited write reaches the store.
WriteCommit(i) ==
    /\ i \in 1..Len(reqs)
    /\ \E w \in reqs[i].pending :
         /\ reqs' = [reqs EXCEPT ![i].pending = @ \ {w},
                                 ![i].applied = @ \cup {<<w.tag, w.job>>}]
         /\ IF w.tag = "markPaid"
            THEN /\ paid' = [paid EXCEPT ![w.id] = TRUE]
                 /\ paymentDate' = [paymentDate EXCEPT ![w.id] = w.value]
                 /\ UNCHANGED balance
            ELSE /\ \E v \in Stored(w.value) : balance' = [balance EXCEPT ![w.id] = v]
                 /\ UNCHANGED <<paid, paymentDate>>
    /\ UNCHANGED <<depositPaid, seed, nreq>>

\* An unawaited write is rejected.  The response has been sent already: the
\* .catch of lines 129-136 cannot replace it, the others have no handler.
WriteFail(i) ==
    /\ i \in 1..Len(reqs)
    /\ \E w \in reqs[i].pending : reqs' = [reqs EXCEPT ![i].pending = @ \ {w}]
    /\ UNCHANGED <<db, seed, nreq>>

\* POST /balances/deposit/:userId: getProfile, Job.findAll, lines 181-187.
\* req.profile and the rows of findAll are read in one step; the rows come
\* in id order.
DepositStart(caller, userId) ==
    /\ UNCHANGED <<db, seed>>
    /\ LET base == NewReq("deposit", caller, userId)
           jobs == EligibleJobs(caller, userId)
       IN  IF Len(jobs) = 0
           THEN Start([base EXCEPT !.res = Res(400, "No Jobs to pay")])
           ELSE Start([base EXCEPT !.pc = "loop", !.jobs = jobs,
                                   !.clientBal = balance[caller],
                                   !.profileBal = balance[caller],
                                   !.contractorBal = balance[userId]])

\* lines 190-193: the deposit exceeds profile.balance, continue
DepositSkip(i) ==
    /\ i \in 1..Len(reqs)
    /\ reqs[i].pc = "loop"
    /\ reqs[i].idx <= Len(reqs[i].jobs)
    /\ JsGt(DepositAmount(price[reqs[i].jobs[reqs[i].idx]]), reqs[i].profileBal)
    /\ reqs' = [reqs EXCEPT ![i].idx = @ + 1]
    /\ UNCHANGED <<db, seed, nreq>>

\* lines 195-196: the awaited debit resolves; profile becomes the result of
\* Profile.update, an array [affectedCount] whose .balance is undefined; the
\* contractor's credit is issued without await.  A NaN balance that the store
\* refuses is DepositDebitFail.
DepositDebit(i) ==
    /\ i \in 1..Len(reqs)
    /\ reqs[i].pc = "loop"
    /\ reqs[i].idx <= Len(reqs[i].jobs)
    /\ LET r == reqs[i]
           job == r.jobs[r.idx]
           d == DepositAmount(price[job])
       IN  /\ ~JsGt(d, r.profileBal)
           /\ \E v \in Stored(JsSub(r.profileBal, d)) : balance' = [balance EXCEPT ![r.caller] = v]
           /\ reqs' = [reqs EXCEPT
                  ![i].pc = "flag",
                  ![i].profileBal = NaN,
                  ![i].applied = @ \cup {<<"debit", job>>},
                  ![i].pending = @ \cup {Write("credit", job, r.target, JsAdd(r.contractorBal, d))}]
    /\ UNCHANGED <<paid, paymentDate, depositPaid, seed, nreq>>

\* line 195 throws (the store rejects the write): lines 200-204
DepositDebitFail(i) ==
    /\ i \in 1..Len(reqs)
    /\ reqs[i].pc = "loop"
    /\ reqs[i].idx <= Len(reqs[i].jobs)
    /\ ~JsGt(DepositAmount(price[reqs[i].jobs[reqs[i].idx]]), reqs[i].profileBal)
    /\ reqs' = [reqs EXCEPT ![i].pc = "done", ![i].res = Res(400, StorageErrorMessage)]
    /\ UNCHANGED <<db, seed, nreq>>

\* lines 197-199: the awaited job.update resolves
DepositFlag(i) ==
    /\ i \in 1..Len(reqs)
    /\ reqs[i].pc = "flag"
    /\ LET r == reqs[i]
           job == r.jobs[r.idx]
       IN  /\ depositPaid' = [depositPaid EXCEPT ![job] = TRUE]
           /\ reqs' = [reqs EXCEPT
                  ![i].pc = "loop",
                  ![i].idx = @ + 1,
                  ![i].applied = @ \cup {<<"flag", job>>},
                  ![i].totalPaid = @ + DepositAmount(price[job]),
                  ![i].totalJobsPaid = @ + 1]
    /\ UNCHANGED <<balance, paid, paymentDate, seed, nreq>>

\* line 197 throws: lines 200-204
DepositFlagFail(i) ==
    /\ i \in 1..Len(reqs)
    /\ reqs[i].pc = "flag"
    /\ reqs' = [reqs EXCEPT ![i].pc = "done", ![i].res = Res(400, StorageErrorMessage)]
    /\ UNCHANGED <<db, seed, nreq>>

\* line 206
DepositRespond(i) ==
    /\ i \in 1..Len(reqs)
    /\ reqs[i].pc = "loop"
    /\ reqs[i].idx > Len(reqs[i].jobs)
    /\ reqs' = [reqs EXCEPT
           ![i].pc = "done",
           ![i].res = [status |-> 200, message |-> "Deposit paid",
                       jobs |-> Len(reqs[i].jobs), paid |-> reqs[i].totalPaid,
                       totalJobsPaid |-> reqs[i].totalJobsPaid]]
    /\ UNCHANGED <<db, seed, nreq>>

\* every request that has arrived has settled
Quiet == \A q \in Reqs : Finished(q)

\* One client at a time: a request arrives when the one before it has settled.
Next ==
    \/ \E c \in ClientIds, id \in RequestedJobIds : Quiet /\ PayStart(c, id)
    \/ \E c \in ClientIds, u \in ProfileIds : Quiet /\ DepositStart(c, u)
    \/ \E i \in 1..MaxReq : WriteCommit(i)
    \/ \E i \in 1..MaxReq : WriteFail(i)
    \/ \E i \in 1..MaxReq : DepositSkip(i)
    \/ \E i \in 1..MaxReq : DepositDebit(i)
    \/ \E i \in 1..MaxReq : DepositDebitFail(i)
    \/ \E i \in 1..MaxReq : DepositFlag(i)
    \/ \E i \in 1..MaxReq : DepositFlagFail(i)
    \/ \E i \in 1..MaxReq : DepositRespond(i)

Spec == Init /\ [][Next]_vars

\* The server: a request arrives whatever the others are doing.
NextConc ==
    \/ \E c \in ClientIds, id \in RequestedJobIds : PayStart(c, id)
    \/ \E c \in ClientIds, u \in ProfileIds : DepositStart(c, u)
    \/ \E i \in 1..MaxReq : WriteCommit(i)
    \/ \E i \in 1..MaxReq : WriteFail(i)
    \/ \E i \in 1..MaxReq : DepositSkip(i)
    \/ \E i \in 1..MaxReq : DepositDebit(i)
    \/ \E i \in 1..MaxReq : DepositDebitFail(i)
    \/ \E i \in 1..MaxReq : DepositFlag(i)
    \/ \E i \in 1..MaxReq : DepositFlagFail(i)
    \/ \E i \in 1..MaxReq : DepositRespond(i)

SpecConc == Init /\ [][NextConc]_vars

\* ------------------------------------------------------------------------
\* Properties
\* ------------------------------------------------------------------------
PayTags == {"credit", "debit", "markPaid"}
AppliedTags(r) == {t[1] : t \in r.applied}
JobsOf(r) == {r.jobs[k] : k \in 1..Len(r.jobs)}
Insufficient400 == Res(400, "Insufficient funds")

\* C1: the three writes of a pay request are all-or-nothing once the request
\* has finished, and 200 is answered only when all three have been committed.
C1_PayAtomic ==
    \A r \in Reqs : r.kind = "pay" =>
        /\ Finished(r) => AppliedTags(r) \in {{}, PayTags}
        /\ r.res.status = 200 => AppliedTags(r) = PayTags

\* C2: every stored balance is a number greater than or equal to 0.
C2_BalanceNonNegative ==
    \A p \in ProfileIds : IsNumber(balance[p]) /\ balance[p] >= 0

\* C3: once a pay request on job J has answered 200, a later pay request of
\* the same client on J answers 400 'Job already paid' and issues no write.
C3_PaidOnce ==
    [][\A q \in Reqs :
          (q.kind = "pay" /\ q.res.status = 200 /\ Finished(q) /\ nreq' = nreq + 1) =>
              LET r == reqs'[Len(reqs')] IN
              (r.kind = "pay" /\ r.target = q.target /\ r.caller = q.caller) =>
                  (r.res = Res(400, "Job already paid") /\ r.pending = {})]_vars

\* C4: after a pay request that answered 200, the client's balance is exactly
\* the price lower and the contractor's exactly the price higher than before.
C4_Conservation ==
    \A r \in Reqs :
        (Len(reqs) = 1 /\ r.kind = "pay" /\ r.res.status = 200 /\ Finished(r)) =>
            /\ balance[r.caller] = r.clientBal - price[r.target]
            /\ balance[ContractContractor(JobContract(r.target))] = r.contractorBal + price[r.target]

\* C5: a pay request on an unpaid job of the caller whose price is above the
\* caller's balance answers 400 'Insufficient funds', issues no write and
\* leaves balances, paid and paymentDate as they were; a price at or below
\* the balance is not rejected for insufficient funds.
C5_InsufficientFunds ==
    [][nreq' = nreq + 1 =>
          LET r == reqs'[Len(reqs')] IN
          (r.kind = "pay" /\ FindJob(r.caller, r.target) /\ ~paid[r.target]
                /\ IsNumber(balance[r.caller])) =>
              /\ price[r.target] > balance[r.caller] =>
                    /\ r.res = Insufficient400
                    /\ Finished(r) /\ r.applied = {}
                    /\ balance' = balance /\ paid' = paid /\ paymentDate' = paymentDate
              /\ price[r.target] <= balance[r.caller] =>
                    r.res.message # "Insufficient funds"]_vars

\* C5 witness: a pay request was rejected for insufficient funds, and the
\* client still holds a positive balance below the job's price.
C5_Witness ==
    \E r \in Reqs :
        /\ r.kind = "pay" /\ r.res = Insufficient400
        /\ balance[r.caller] > 0 /\ balance[r.caller] < price[r.target]

\* the greedy pass of C6: jobs k.. of the list against the running balance
RECURSIVE GreedyPass(_, _, _)
GreedyPass(jobs, k, bal) ==
    IF k > Len(jobs) THEN [count |-> 0, paid |-> 0]
    ELSE LET d == DepositAmount(price[jobs[k]]) IN
         IF d <= bal
         THEN LET rest == GreedyPass(jobs, k + 1, bal - d)
              IN  [count |-> rest.count + 1, paid |-> rest.paid + d]
         ELSE GreedyPass(jobs, k + 1, bal)

\* C6: a deposit request that answers 200 reports the eligible jobs, and the
\* count and the sum of the deposits a greedy pass over them processes with
\* the caller's balance at request start.
C6_GreedyDeposit ==
    \A r \in Reqs :
        (r.kind = "deposit" /\ r.res.status = 200 /\ IsNumber(r.clientBal)) =>
            /\ r.res.jobs = Len(r.jobs)
            /\ r.res.totalJobsPaid = GreedyPass(r.jobs, 1, r.clientBal).count
            /\ r.res.paid = GreedyPass(r.jobs, 1, r.clientBal).paid

\* C7: after a deposit request that answered 200 with paid = T, the caller's
\* balance is T lower, the contractor's T higher, and depositPaid holds for
\* exactly totalJobsPaid of the jobs the request listed.
C7_DepositTransfer ==
    \A r \in Reqs :
        (Len(reqs) = 1 /\ r.kind = "deposit" /\ r.res.status = 200 /\ Finished(r)
            /\ IsNumber(r.clientBal)) =>
            /\ balance[r.caller] = r.clientBal - r.res.paid
            /\ balance[r.target] = r.contractorBal + r.res.paid
            /\ Cardinality({j \in JobsOf(r) : depositPaid[j]}) = r.res.totalJobsPaid

\* C8: no request writes a balance, paid or depositPaid for a job whose
\* contract is not in_progress.
C8_InProgressOnly ==
    \A r \in Reqs : \A t \in r.applied : status[JobContract(t[2])] = "in_progress"

\* C9: a pay request whose job does not exist or is not the caller's answers
\* 400 'No Job found' and issues no write.
C9_NoJobFound ==
    \A r \in Reqs :
        (r.kind = "pay" /\ ~FindJob(r.caller, r.target)) =>
            (r.res = Res(400, "No Job found") /\ r.pending = {} /\ r.applied = {})

\* what a request that answered 200 says it moved from its caller to the contractor
Moved(r) == IF r.kind = "pay" THEN price[r.target] ELSE r.res.paid
\* none of the writes of the request was rejected
NoWriteLost(r) ==
    IF r.kind = "pay" THEN AppliedTags(r) = PayTags
    ELSE \A j \in JobsOf(r) : <<"flag", j>> \in r.applied => <<"credit", j>> \in r.applied

\* C10: two overlapping requests of one client that both answered 200 and
\* lost no write leave the client's balance lower, and the contractor's
\* higher, by the sum of what both moved.
C10_NoLostUpdate ==
    (/\ Len(reqs) = 2
     /\ \A r \in Reqs : r.res.status = 200 /\ Finished(r) /\ NoWriteLost(r)
     /\ reqs[1].caller = reqs[2].caller
     /\ IsNumber(balance[reqs[1].caller]))
    => /\ balance[reqs[1].caller] = reqs[1].clientBal - (Moved(reqs[1]) + Moved(reqs[2]))
       /\ balance[ContractContractor(1)] = reqs[1].contractorBal + (Moved(reqs[1]) + Moved(reqs[2]))

====
